---- MODULE Spec2Model ----
(***************************************************************************)
(* Model of app.py, the Streamlit "Deep Research" script.                  *)
(*                                                                         *)
(* Streamlit runs the whole script top to bottom on the first page load    *)
(* and again after every user interaction.  What survives a rerun is the   *)
(* process environment, st.session_state (the topic and the answer_<i>     *)
(* widgets) and the st.cache_resource / st.cache_data memo tables.  The    *)
(* language-model provider is external: every response it gives is a       *)
(* nondeterministic choice from a small set of response texts or shapes,   *)
(* or a raised transport / API error.                                      *)
(*                                                                         *)
(* Python strings that the code inspects character by character are        *)
(* sequences of one-character strings; None is the sentinel below.         *)
(***************************************************************************)
EXTENDS Integers, Sequences, FiniteSets, TLC

\* ------------------------------------------------------------- bounds

\* Script runs (page load and reruns) in one behaviour of the session.
MaxRuns == 7
\* Longest provider answer enumerated for evaluate.
MaxTextLen == 3
\* Most lines of a .env file.
MaxEnvLines == 2

\* ------------------------------------------------- Python strings, None

\* Python's None where a string is expected (a character sequence).
NoneStr == <<"None">>
\* Python's None where an identifier is expected (a TLA+ string).
NoneId == "None"

\* Python truthiness of an optional string: `if api_key`.
Truthy(s) == s # NoneStr /\ s # <<>>

\* str.startswith
StartsWith(s, p) == Len(s) >= Len(p) /\ SubSeq(s, 1, Len(p)) = p

IsSpace(c) == c \in {" ", "\n", "\t", "\r"}

RECURSIVE LStrip(_)
LStrip(s) == IF s # <<>> /\ IsSpace(Head(s)) THEN LStrip(Tail(s)) ELSE s

RECURSIVE RStrip(_)
RStrip(s) ==
  IF s # <<>> /\ IsSpace(s[Len(s)]) THEN RStrip(SubSeq(s, 1, Len(s) - 1)) ELSE s

\* str.strip()
Strip(s) == RStrip(LStrip(s))

\* s.split(c, 1)[1] for a string s that holds c: what follows the first c.
RECURSIVE AfterFirst(_, _)
AfterFirst(s, c) ==
  IF s = <<>> THEN <<>>
  ELSE IF Head(s) = c THEN Tail(s) ELSE AfterFirst(Tail(s), c)

\* str.split(sep) for a one-character separator: never an empty list.
RECURSIVE SplitFrom(_, _, _)
SplitFrom(s, sep, cur) ==
  IF s = <<>> THEN <<cur>>
  ELSE IF Head(s) = sep THEN <<cur>> \o SplitFrom(Tail(s), sep, <<>>)
  ELSE SplitFrom(Tail(s), sep, Append(cur, Head(s)))

Split(s, sep) == SplitFrom(s, sep, <<>>)

\* str.lower() on one character of the alphabets used here.
LowerChar(c) ==
  CASE c = "Y" -> "y"
    [] c = "E" -> "e"
    [] c = "S" -> "s"
    [] c = "N" -> "n"
    [] c = "O" -> "o"
    [] c = "P" -> "p"
    [] c = "X" -> "x"
    [] OTHER -> c

Lower(s) == [i \in 1..Len(s) |-> LowerChar(s[i])]

\* Python's `sub in s` for strings.
RECURSIVE Contains(_, _)
Contains(s, sub) ==
  IF Len(s) < Len(sub) THEN FALSE
  ELSE IF SubSeq(s, 1, Len(sub)) = sub THEN TRUE
  ELSE Contains(Tail(s), sub)

\* ------------------------------------------------ credential resolver

\* The literal 'OPENAI_API_KEY=' of line 30.
KeyPrefix ==
  <<"O","P","E","N","A","I","_","A","P","I","_","K","E","Y","=">>

\* Lines 18-22: st.secrets['openai_api_key'], with a failing store absorbed.
SecretsLookup(sec) ==
  IF sec.kind = "present" THEN sec.val ELSE NoneStr

\* Lines 28-32: the loop over the lines of .env; `found` is the api_key
\* the loop starts with and keeps when no line matches.
RECURSIVE DotenvScan(_, _)
DotenvScan(lines, found) ==
  IF lines = <<>> THEN found
  ELSE IF StartsWith(Head(lines), KeyPrefix)
       THEN AfterFirst(Strip(Head(lines)), "=")
       ELSE DotenvScan(Tail(lines), found)

\* set_api_key_env with the environment consulted before the secrets store.
set_api_key_env_EnvFirst(sec, env, dotenv) ==
  LET k1 == env
      k2 == IF ~Truthy(k1) THEN SecretsLookup(sec) ELSE k1
      k3 == IF ~Truthy(k2) /\ dotenv.exists
            THEN DotenvScan(dotenv.lines, k2) ELSE k2
  IN [api_key |-> k3, environ |-> IF Truthy(k3) THEN k3 ELSE env]

\* set_api_key_env: the returned api_key and the new OPENAI_API_KEY of
\* os.environ (NoneStr: the variable is not set).
set_api_key_env(sec, env, dotenv) ==
  LET k1 == SecretsLookup(sec)
      k2 == IF ~Truthy(k1) THEN env ELSE k1
      k3 == IF ~Truthy(k2) /\ dotenv.exists
            THEN DotenvScan(dotenv.lines, k2) ELSE k2
  IN [api_key |-> k3, environ |-> IF Truthy(k3) THEN k3 ELSE env]

\* ------------------------------------------------------- json.loads

\* A parsed JSON value.  t is the Python type json.loads gives; items are
\* what iterating the value yields (the elements of a list, the characters
\* of a str, the keys of a dict, in order); members are a dict's values, in
\* the order of its keys.
JLeaf(t, items) == [t |-> t, items |-> items, members |-> <<>>]
JStr(chars) == JLeaf("str", chars)
JList(elems) == JLeaf("list", elems)
JInt(digits) == JLeaf("int", <<digits>>)
JNone == JLeaf("NoneType", <<>>)
JDict(keys, vals) == [t |-> "dict", items |-> keys, members |-> vals]

\* Response texts of the planning step.
PlanTwo == "{\"goal\":\"g\",\"queries\":[\"q1\",\"q2\"]}"
PlanOne == "{\"goal\":\"g\",\"queries\":[\"q1\"]}"
PlanEmpty == "{\"goal\":\"g\",\"queries\":[]}"
PlanQueriesStr == "{\"goal\":\"g\",\"queries\":\"q1\"}"
PlanExtraKey == "{\"goal\":\"g\",\"queries\":[\"q1\"],\"note\":\"n\"}"
PlanGoalInt == "{\"goal\":5,\"queries\":[\"q1\"]}"
PlanQueriesInt == "{\"goal\":\"g\",\"queries\":5}"
PlanNoQueries == "{\"goal\":\"g\"}"
PlanNoGoal == "{\"queries\":[\"q1\"]}"
PlanBareList == "[\"q1\",\"q2\"]"
PlanProse == "Goal: g. Queries: q1, q2"
PlanTruncated == "{\"goal\":\"g\",\"queries\":[\"q1\""

\* Response texts of the expansion step.
MoreOne == "[\"q3\"]"
MoreRepeat == "[\"q1\"]"
MoreSix == "[\"q1\",\"q1\",\"q1\",\"q1\",\"q1\",\"q1\"]"
MoreNone == "[]"
MoreDict == "{\"queries\":[\"q3\"]}"
MoreStr == "\"q\""
MoreInt == "5"
MoreNull == "null"
MoreProse == "1. q3"

JsonTexts ==
  { PlanTwo, PlanOne, PlanEmpty, PlanQueriesStr, PlanExtraKey, PlanGoalInt,
    PlanQueriesInt, PlanNoQueries, PlanNoGoal, PlanBareList, PlanProse,
    PlanTruncated, MoreOne, MoreRepeat, MoreSix, MoreNone, MoreDict, MoreStr,
    MoreInt, MoreNull, MoreProse }

\* Texts json.loads rejects with JSONDecodeError.
JsonInvalid == { PlanProse, PlanTruncated, MoreProse }

\* json.loads on the texts above: the value of each valid text.
json_loads_value(text) ==
  CASE text = PlanTwo ->
         JDict(<<"goal", "queries">>, <<JStr(<<"g">>), JList(<<"q1", "q2">>)>>)
    [] text = PlanOne ->
         JDict(<<"goal", "queries">>, <<JStr(<<"g">>), JList(<<"q1">>)>>)
    [] text = PlanEmpty ->
         JDict(<<"goal", "queries">>, <<JStr(<<"g">>), JList(<<>>)>>)
    [] text = PlanQueriesStr ->
         JDict(<<"goal", "queries">>, <<JStr(<<"g">>), JStr(<<"q", "1">>)>>)
    [] text = PlanExtraKey ->
         JDict(<<"goal", "queries", "note">>,
               <<JStr(<<"g">>), JList(<<"q1">>), JStr(<<"n">>)>>)
    [] text = PlanGoalInt ->
         JDict(<<"goal", "queries">>, <<JInt("5"), JList(<<"q1">>)>>)
    [] text = PlanQueriesInt ->
         JDict(<<"goal", "queries">>, <<JStr(<<"g">>), JInt("5")>>)
    [] text = PlanNoQueries -> JDict(<<"goal">>, <<JStr(<<"g">>)>>)
    [] text = PlanNoGoal -> JDict(<<"queries">>, <<JList(<<"q1">>)>>)
    [] text = PlanBareList -> JList(<<"q1", "q2">>)
    [] text = MoreOne -> JList(<<"q3">>)
    [] text = MoreRepeat -> JList(<<"q1">>)
    [] text = MoreSix -> JList(<<"q1", "q1", "q1", "q1", "q1", "q1">>)
    [] text = MoreNone -> JList(<<>>)
    [] text = MoreDict -> JDict(<<"queries">>, <<JList(<<"q3">>)>>)
    [] text = MoreStr -> JStr(<<"q">>)
    [] text = MoreInt -> JInt("5")
    [] text = MoreNull -> JNone

\* json.loads: ok is FALSE when it raises JSONDecodeError.
json_loads(text) ==
  IF text \in JsonInvalid
  THEN [ok |-> FALSE, value |-> JNone]
  ELSE [ok |-> TRUE, value |-> json_loads_value(text)]

\* Whether v[key] succeeds (a dict that holds the key); otherwise Python
\* raises KeyError or TypeError.
CanIndex(v, key) ==
  v.t = "dict" /\ \E i \in 1..Len(v.items) : v.items[i] = key

\* v[key] of a dict that holds the key.
Index(v, key) ==
  v.members[CHOOSE i \in 1..Len(v.items) : v.items[i] = key]

\* Whether `for q in v` / enumerate(v) succeeds; otherwise TypeError.
Iterable(v) == v.t \in {"list", "str", "dict"}

\* The sequence `for q in v` goes through.
Iter(v) == v.items

\* ------------------------------------------------------- run_search

\* One element of a provider response's output list.  has_id / has_content
\* are hasattr(item, 'id') / hasattr(item, 'content'); content is a list of
\* parts, a part with has_text FALSE has no .text attribute (a refusal).
Part(text) == [has_text |-> TRUE, text |-> text]
PartNoText == [has_text |-> FALSE, text |-> ""]
Item(has_id, id, has_content, content) ==
  [has_id |-> has_id, id |-> id, has_content |-> has_content, content |-> content]

\* The web_search_call element the search tool puts first.
CallItem == Item(TRUE, "ws_1", FALSE, <<>>)
\* A message element holding one text part.
MessageItem(id, text) == Item(TRUE, id, TRUE, <<Part(text)>>)

\* A Python string: a literal text followed by the repr of a response
\* output (the f-string of line 96); a plain string has no such tail.
Str(text) == [text |-> text, tail |-> <<>>]
FStr(text, output) == [text |-> text, tail |-> output]

ErrPrefix == "Error: Unexpected response format: "

\* The dict run_search returns.
SearchResult(q, resp_id, research_output) ==
  [query |-> q, resp_id |-> resp_id, research_output |-> research_output]

\* Line 85: the shape test.
ShapeOk(output) ==
  /\ Len(output) > 1
  /\ output[2].has_id
  /\ output[2].has_content

\* Lines 84-97: what run_search does with the response's output list.
\* raised: the exception that leaves the function ("" for none).
run_search_body(q, output) ==
  IF ShapeOk(output)
  THEN IF Len(output[2].content) = 0
       THEN [raised |-> "IndexError", value |-> SearchResult(q, NoneId, Str(""))]
       ELSE IF ~output[2].content[1].has_text
       THEN [raised |-> "AttributeError", value |-> SearchResult(q, NoneId, Str(""))]
       ELSE [raised |-> "",
             value |-> SearchResult(q, output[2].id, Str(output[2].content[1].text))]
  ELSE [raised |-> "", value |-> SearchResult(q, NoneId, FStr(ErrPrefix, output))]

\* --------------------------------------------------------- evaluate

\* Line 111 without .lower(): a case-sensitive test.
evaluate_body_CaseSensitive(text) == Contains(text, <<"y", "e", "s">>)

\* Line 111: "yes" in text.lower()
evaluate_body(text) == Contains(Lower(text), <<"y", "e", "s">>)

\* ------------------------------------------------------- program constants

\* Lines 156-162.
MODEL == "gpt-4.1"
MODEL_MINI == "gpt-4.1-mini"
TOOLS == <<"web_search">>
developer_message == "You are an expert Deep Researcher."

\* ------------------------------------------------------------ state

VARIABLES
  \* the process: credential sources, memoized client, memo tables, and
  \* whether the installed Streamlit identifies a widget by its key alone
  \* (otherwise by key and label, so that a new label resets the value)
  secrets, environ, dotenv, client, cache, keyed_identity,
  \* the browser session: st.session_state['topic'], the answer_<i> widget
  \* values carried into the current run, and what the last run rendered
  session_topic, widget_state, form_shown, button_shown,
  \* the current script run: where it is and what triggered it
  pc, runs, submitted, form_topic, clicked,
  \* the script's module-level names
  api_key, questions, clarify_id, answers, plan, goal_and_queries_id, goal,
  queries, collected, idx, enough, report,
  \* observations of the current run
  stage, shown, calls, returned, gw, fault, error, searched, env_before,
  review, last_search,
  \* observations of the memoized steps over the whole process
  hist, last

procv == <<secrets, dotenv, keyed_identity>>
sessv == <<session_topic, widget_state, form_shown, button_shown>>
trigv == <<runs, submitted, form_topic, clicked, shown>>
vars ==
  <<secrets, environ, dotenv, client, cache, keyed_identity, session_topic,
    widget_state,
    form_shown, button_shown, pc, runs, submitted, form_topic, clicked,
    api_key, questions, clarify_id, answers, plan, goal_and_queries_id, goal,
    queries, collected, idx, enough, report, stage, shown, calls, returned,
    gw, fault, error, searched, env_before, review, last_search, hist, last>>

\* An empty memo table.
EmptyTable == [k \in {} |-> 0]

\* A memo table with the entry for key k set to v.
Put(table, k, v) ==
  [x \in DOMAIN table \cup {k} |-> IF x = k THEN v ELSE table[x]]

\* st.cache_data never finding an entry: every call runs the function.
CacheHit_Never(table, k) == FALSE

\* st.cache_data (lines 43, 59, 76, 100, 114, 128): a call whose hashed
\* arguments are a key of the table returns the stored value.
CacheHit(table, k) == k \in DOMAIN table

NoCalls ==
  [clarify |-> 0, plan |-> 0, search |-> 0, evaluate |-> 0, more |-> 0,
   report |-> 0]

NoReview == [called |-> FALSE, text |-> <<>>, result |-> FALSE]
NoSearch ==
  [called |-> FALSE, q |-> "", output |-> <<>>, raised |-> "",
   value |-> SearchResult("", NoneId, Str(""))]
NoLast == [fn |-> "", seen |-> FALSE, gateway |-> FALSE, same |-> TRUE]

\* The lifecycle states of the session, in order.
Stages ==
  <<"Empty", "TopicSet", "Clarified", "Planned", "Searching", "Evaluated",
    "EvaluatedInsufficient", "ExpandedSearching", "ReportWritten">>

Rank(s) == CHOOSE i \in 1..Len(Stages) : Stages[i] = s

\* The state before the first script run of a session in a fresh process.
InitWith(secretsSet, environSet, dotenvSet) ==
  /\ secrets \in secretsSet
  /\ environ \in environSet
  /\ dotenv \in dotenvSet
  /\ keyed_identity \in BOOLEAN
  /\ client = FALSE
  /\ cache = [clarify |-> EmptyTable, plan |-> EmptyTable, search |-> EmptyTable,
              evaluate |-> EmptyTable, more |-> EmptyTable, report |-> EmptyTable]
  /\ session_topic = ""
  /\ widget_state = <<>>
  /\ form_shown = FALSE
  /\ button_shown = FALSE
  /\ pc = "start"
  /\ runs = 1
  /\ submitted = FALSE
  /\ form_topic = ""
  /\ clicked = FALSE
  /\ api_key = NoneStr
  /\ questions = <<>>
  /\ clarify_id = NoneId
  /\ answers = <<>>
  /\ plan = JNone
  /\ goal_and_queries_id = NoneId
  /\ goal = JNone
  /\ queries = JNone
  /\ collected = <<>>
  /\ idx = 0
  /\ enough = FALSE
  /\ report = NoneId
  /\ stage = "Empty"
  /\ shown = "Empty"
  /\ calls = NoCalls
  /\ returned = {}
  /\ gw = 0
  /\ fault = "none"
  /\ error = ""
  /\ searched = <<>>
  /\ env_before = environ
  /\ review = NoReview
  /\ last_search = NoSearch
  /\ hist = [clarify |-> EmptyTable, plan |-> EmptyTable, search |-> EmptyTable]
  /\ last = NoLast

\* ------------------------------------------------- user interactions

\* The answer inputs the last run rendered, with their labels and values.
Rendered ==
  [i \in 1..Len(answers) |-> [label |-> questions[i], value |-> answers[i]]]

\* Streamlit starts a new script run: the module-level names are unbound
\* again, the widgets rendered by the last run keep their values (ws), the
\* others are dropped.
BeginRun(sub, ft, clk, ws) ==
  /\ pc = "idle"
  /\ pc' = "start"
  /\ runs' = runs + 1
  /\ submitted' = sub
  /\ form_topic' = ft
  /\ clicked' = clk
  /\ widget_state' = ws
  /\ shown' = stage
  /\ stage' = "Empty"
  /\ form_shown' = FALSE
  /\ button_shown' = FALSE
  /\ api_key' = NoneStr
  /\ questions' = <<>>
  /\ clarify_id' = NoneId
  /\ answers' = <<>>
  /\ plan' = JNone
  /\ goal_and_queries_id' = NoneId
  /\ goal' = JNone
  /\ queries' = JNone
  /\ collected' = <<>>
  /\ idx' = 0
  /\ enough' = FALSE
  /\ report' = NoneId
  /\ calls' = NoCalls
  /\ returned' = {}
  /\ gw' = 0
  /\ fault' = "none"
  /\ error' = ""
  /\ searched' = <<>>
  /\ review' = NoReview
  /\ last_search' = NoSearch
  /\ last' = NoLast
  /\ UNCHANGED <<procv, environ, env_before, client, cache, session_topic, hist>>

\* The user asks for a rerun without touching a widget.
Rerun(D) ==
  /\ runs < D.maxRuns
  /\ BeginRun(FALSE, "", FALSE, Rendered)

\* Lines 165-167: the user submits the topic form (possibly left empty).
SubmitTopic(D) ==
  /\ runs < D.maxRuns
  /\ form_shown
  /\ \E t \in D.topics \cup {""} : BeginRun(TRUE, t, FALSE, Rendered)

\* Line 182: the user edits one of the answer inputs the last run rendered.
EditAnswer(D) ==
  /\ runs < D.maxRuns
  /\ \E i \in 1..Len(answers), v \in D.answerVals :
       /\ v # answers[i]
       /\ BeginRun(FALSE, "", FALSE, [Rendered EXCEPT ![i].value = v])

\* Line 195: the user clicks 'Run Research', which the last run rendered.
ClickRunResearch(D) ==
  /\ runs < D.maxRuns
  /\ button_shown
  /\ BeginRun(FALSE, "", TRUE, Rendered)

\* ------------------------------------------------------ the script

\* An exception leaves a memoized step after its Gateway request: nothing
\* is stored in the memo table, the script run ends (Streamlit shows the
\* exception).  flt tells a Gateway failure from a JSON parse failure; ls
\* is what run_search's body saw, when that is the step.
Fail(step, exc, flt, ls) ==
  /\ pc' = "idle"
  /\ error' = exc
  /\ fault' = flt
  /\ gw' = gw + 1
  /\ calls' = [calls EXCEPT ![step] = @ + 1]
  /\ last_search' = ls
  /\ UNCHANGED <<procv, environ, env_before, client, cache, sessv, trigv,
                 api_key, questions, clarify_id, answers, plan,
                 goal_and_queries_id, goal, queries, collected, idx, enough,
                 report, stage, returned, searched, review, hist, last>>

\* Lines 149-154: resolve the credential; without one st.stop() ends the
\* run, with one the memoized client is obtained.
ResolveCredential ==
  /\ pc = "start"
  /\ LET r == set_api_key_env(secrets, environ, dotenv)
     IN /\ api_key' = r.api_key
        /\ environ' = r.environ
        /\ env_before' = environ
        /\ client' = (client \/ Truthy(r.api_key))
        /\ pc' = IF Truthy(r.api_key) THEN "topic" ELSE "idle"
        /\ fault' = IF Truthy(r.api_key) THEN fault ELSE "nocred"
  /\ UNCHANGED <<procv, cache, sessv, trigv, questions, clarify_id, answers,
                 plan, goal_and_queries_id, goal, queries, collected, idx,
                 enough, report, stage, calls, returned, gw, error, searched,
                 review, last_search, hist, last>>

\* Lines 165-174: the topic form and st.session_state['topic'].
TopicForm ==
  /\ pc = "topic"
  /\ form_shown' = TRUE
  /\ session_topic' =
       IF submitted /\ form_topic # "" THEN form_topic ELSE session_topic
  /\ pc' = IF session_topic' # "" THEN "clarify" ELSE "idle"
  /\ stage' = IF session_topic' # "" THEN "TopicSet" ELSE "Empty"
  /\ UNCHANGED <<procv, environ, env_before, client, cache, widget_state,
                 button_shown, trigv, api_key, questions, clarify_id, answers,
                 plan, goal_and_queries_id, goal, queries, collected, idx,
                 enough, report, calls, returned, gw, fault, error, searched,
                 review, last_search, hist, last>>

\* What a memoized call leaves in the observations hist and last: the
\* first value returned for each key, and whether this call's key had
\* returned before, went to the Gateway, and returned the same value.
HistPut(table, k, v) == IF k \in DOMAIN table THEN table ELSE Put(table, k, v)
Observed(fn, table, k, v, via) ==
  [fn |-> fn, seen |-> k \in DOMAIN table, gateway |-> via,
   same |-> (k \in DOMAIN table => table[k] = v)]

\* Line 184 with any() for all().
AllAnswered_Any(a) == \E i \in 1..Len(a) : a[i] # ""

\* Line 184: all(answers)
AllAnswered(a) == \A i \in 1..Len(a) : a[i] # ""

\* Line 182: st.text_input(label, key=f"answer_{i}"): the value the widget
\* had in the last run, or the empty default of a widget that is new.
TextInput(label, i) ==
  IF i <= Len(widget_state)
       /\ (keyed_identity \/ widget_state[i].label = label)
  THEN widget_state[i].value
  ELSE ""

\* Lines 55-56: the value get_clarifying_questions returns.
get_clarifying_questions_body(text, id) ==
  [questions |-> Split(text, "\n"), id |-> id]

\* Lines 178-184 once get_clarifying_questions has returned val: one
\* answer input per question, then the all(answers) gate.
ClarifyReturn(key, val, via) ==
  LET slots == [i \in 1..Len(val.questions) |->
                  TextInput(val.questions[i], i)]
  IN /\ questions' = val.questions
     /\ clarify_id' = val.id
     /\ answers' = slots
     /\ pc' = IF AllAnswered(slots) THEN "plan" ELSE "idle"
     /\ stage' = "Clarified"
     /\ returned' = returned \cup {"clarify"}
     /\ calls' = [calls EXCEPT !.clarify = @ + 1]
     /\ gw' = IF via THEN gw + 1 ELSE gw
     /\ cache' = IF via THEN [cache EXCEPT !.clarify = Put(@, key, val)] ELSE cache
     /\ hist' = [hist EXCEPT !.clarify = HistPut(@, key, val)]
     /\ last' = Observed("clarify", hist.clarify, key, val, via)
     /\ UNCHANGED <<procv, environ, env_before, client, sessv, trigv, api_key,
                    plan, goal_and_queries_id, goal, queries, collected, idx,
                    enough, report, fault, error, searched, review,
                    last_search>>

\* Lines 43-56 and 178-184: the clarification step.
ClarifyStep(D) ==
  /\ pc = "clarify"
  /\ LET key == <<session_topic, developer_message, MODEL_MINI>>
     IN IF CacheHit(cache.clarify, key)
        THEN ClarifyReturn(key, cache.clarify[key], FALSE)
        ELSE \/ Fail("clarify", "APIError", "gateway", last_search)
             \/ \E text \in D.clarifyTexts, id \in D.ids :
                  ClarifyReturn(key, get_clarifying_questions_body(text, id), TRUE)

\* The script going from the initial searches straight to the report.
AfterInitialSearch_SkipEvaluate == "report"

\* Lines 203-206: after the loop over the plan's queries comes evaluate.
AfterInitialSearch == "evaluate"

\* The expansion pass evaluated again, as a `while not enough` would.
AfterExpansion_Loop == "evaluate"

\* Lines 214-217: after the loop over the expansion queries comes
\* write_report; evaluate is not asked again.
AfterExpansion == "report"

\* plan.get("queries", []) for plan["queries"]: a plan without queries
\* shown as a plan with none.
PlanUse_Default(p) ==
  IF ~CanIndex(p, "goal")
  THEN [error |-> IF p.t = "dict" THEN "KeyError" ELSE "TypeError",
        goal |-> goal, queries |-> queries, button |-> FALSE,
        stage |-> stage, pc |-> "idle"]
  ELSE LET qs == IF CanIndex(p, "queries") /\ Iterable(Index(p, "queries"))
                 THEN Index(p, "queries") ELSE JList(<<>>)
       IN [error |-> "", goal |-> Index(p, "goal"), queries |-> qs,
           button |-> TRUE,
           stage |-> IF clicked THEN "Searching" ELSE "Planned",
           pc |-> IF ~clicked THEN "idle"
                  ELSE IF Len(Iter(qs)) = 0 THEN AfterInitialSearch
                  ELSE "search"]

\* Lines 188-195 once get_goal_and_queries has returned the plan p: the
\* subscripts, the loop that shows the queries, the button.
PlanUse(p) ==
  IF ~CanIndex(p, "goal")
  THEN [error |-> IF p.t = "dict" THEN "KeyError" ELSE "TypeError",
        goal |-> goal, queries |-> queries, button |-> FALSE,
        stage |-> stage, pc |-> "idle"]
  ELSE IF ~CanIndex(p, "queries")
  THEN [error |-> "KeyError", goal |-> Index(p, "goal"), queries |-> queries,
        button |-> FALSE, stage |-> stage, pc |-> "idle"]
  ELSE IF ~Iterable(Index(p, "queries"))
  THEN [error |-> "TypeError", goal |-> Index(p, "goal"),
        queries |-> Index(p, "queries"), button |-> FALSE, stage |-> "Planned",
        pc |-> "idle"]
  ELSE [error |-> "", goal |-> Index(p, "goal"), queries |-> Index(p, "queries"),
        button |-> TRUE,
        stage |-> IF clicked THEN "Searching" ELSE "Planned",
        pc |-> IF ~clicked THEN "idle"
               ELSE IF Len(Iter(Index(p, "queries"))) = 0 THEN AfterInitialSearch
               ELSE "search"]

PlanReturn(key, val, via) ==
  LET use == PlanUse(val.plan)
  IN /\ plan' = val.plan
     /\ goal_and_queries_id' = val.id
     /\ goal' = use.goal
     /\ queries' = use.queries
     /\ button_shown' = use.button
     /\ error' = use.error
     /\ stage' = use.stage
     /\ pc' = use.pc
     /\ idx' = 1
     /\ returned' = returned \cup {"plan"}
     /\ calls' = [calls EXCEPT !.plan = @ + 1]
     /\ gw' = IF via THEN gw + 1 ELSE gw
     /\ cache' = IF via THEN [cache EXCEPT !.plan = Put(@, key, val)] ELSE cache
     /\ hist' = [hist EXCEPT !.plan = HistPut(@, key, val)]
     /\ last' = Observed("plan", hist.plan, key, val, via)
     /\ UNCHANGED <<procv, environ, env_before, client, session_topic,
                    widget_state, form_shown, trigv, api_key, questions,
                    clarify_id, answers, collected, enough, report, fault,
                    searched, review, last_search>>

\* Lines 59-73 and 187-196: the planning step.
PlanStep(D) ==
  /\ pc = "plan"
  /\ LET key == [answers |-> answers, questions |-> questions,
                 topic |-> session_topic, developer_message |-> developer_message,
                 model |-> MODEL, clarify_id |-> clarify_id]
     IN IF CacheHit(cache.plan, key)
        THEN PlanReturn(key, cache.plan[key], FALSE)
        ELSE \/ Fail("plan", "APIError", "gateway", last_search)
             \/ \E text \in D.planTexts, id \in D.ids :
                  IF json_loads(text).ok
                  THEN PlanReturn(key, [plan |-> json_loads(text).value, id |-> id], TRUE)
                  ELSE Fail("plan", "JSONDecodeError", "json", last_search)

\* Lines 201 / 214 with results for an already collected query skipped.
Collect_Dedup(coll, res) ==
  IF \E i \in 1..Len(coll) : coll[i].query = res.query THEN coll
  ELSE Append(coll, res)

\* Lines 201 / 214: collected.append(run_search(...))
Collect(coll, res) == Append(coll, res)

\* One pass of a search loop once run_search has returned res for the
\* query q; after the last query the script goes on at `after`.
SearchReturn(q, res, via, ls, after) ==
  /\ collected' = Collect(collected, res)
  /\ searched' = Append(searched, q)
  /\ idx' = idx + 1
  /\ pc' = IF idx + 1 > Len(Iter(queries)) THEN after ELSE pc
  /\ calls' = [calls EXCEPT !.search = @ + 1]
  /\ gw' = IF via THEN gw + 1 ELSE gw
  /\ last_search' = ls
  /\ cache' = IF via THEN [cache EXCEPT !.search = Put(@, q, res)] ELSE cache
  /\ hist' = [hist EXCEPT !.search = HistPut(@, q, res)]
  /\ last' = Observed("search", hist.search, q, res, via)
  /\ UNCHANGED <<procv, environ, env_before, client, sessv, trigv, api_key,
                 questions, clarify_id, answers, plan, goal_and_queries_id,
                 goal, queries, enough, report, stage, returned, fault, error,
                 review>>

\* Lines 76-97: run_search for the query under the loop index.  The memo
\* key is the query (persona, model and tools never change).
SearchStep(D, after) ==
  LET q == Iter(queries)[idx]
  IN IF CacheHit(cache.search, q)
     THEN SearchReturn(q, cache.search[q], FALSE, last_search, after)
     ELSE \/ Fail("search", "APIError", "gateway", last_search)
          \/ \E output \in D.searchOutputs :
               LET r == run_search_body(q, output)
                   ls == [called |-> TRUE, q |-> q, output |-> output,
                          raised |-> r.raised, value |-> r.value]
               IN IF r.raised # ""
                  THEN Fail("search", r.raised, "none", ls)
                  ELSE SearchReturn(q, r.value, TRUE, ls, after)

\* Lines 198-203: the loop over the plan's queries.
InitialSearch(D) ==
  /\ pc = "search"
  /\ SearchStep(D, AfterInitialSearch)

\* Lines 211-214: the loop over the expansion queries.
ExpansionSearch(D) ==
  /\ pc = "search2"
  /\ SearchStep(D, AfterExpansion)

\* Line 207: `if not enough`.
AfterEvaluate(e) == IF e THEN "report" ELSE "expand"

EvaluateReturn(key, val, via, rv) ==
  /\ enough' = val
  /\ pc' = AfterEvaluate(val)
  /\ stage' = IF val THEN "Evaluated" ELSE "EvaluatedInsufficient"
  /\ review' = rv
  /\ returned' = returned \cup {"evaluate"}
  /\ calls' = [calls EXCEPT !.evaluate = @ + 1]
  /\ gw' = IF via THEN gw + 1 ELSE gw
  /\ cache' = IF via THEN [cache EXCEPT !.evaluate = Put(@, key, val)] ELSE cache
  /\ UNCHANGED <<procv, environ, env_before, client, sessv, trigv, api_key,
                 questions, clarify_id, answers, plan, goal_and_queries_id,
                 goal, queries, collected, idx, report, fault, error, searched,
                 last_search, hist, last>>

\* Lines 100-111 and 205-207: the coverage evaluator.
EvaluateStep(D) ==
  /\ pc = "evaluate"
  /\ LET key == [collected |-> collected, goal |-> goal,
                 developer_message |-> developer_message, model |-> MODEL]
     IN IF CacheHit(cache.evaluate, key)
        THEN EvaluateReturn(key, cache.evaluate[key], FALSE, review)
        ELSE \/ Fail("evaluate", "APIError", "gateway", last_search)
             \/ \E text \in D.evalTexts :
                  EvaluateReturn(key, evaluate_body(text), TRUE,
                    [called |-> TRUE, text |-> text, result |-> evaluate_body(text)])

\* Lines 210-211 once get_more_queries has returned val.
MoreReturn(key, val, via) ==
  /\ queries' = val
  /\ idx' = 1
  /\ pc' = IF ~Iterable(val) THEN "idle"
           ELSE IF Len(Iter(val)) = 0 THEN AfterExpansion ELSE "search2"
  /\ error' = IF ~Iterable(val) THEN "TypeError" ELSE error
  /\ stage' = IF ~Iterable(val) THEN stage ELSE "ExpandedSearching"
  /\ returned' = returned \cup {"more"}
  /\ calls' = [calls EXCEPT !.more = @ + 1]
  /\ gw' = IF via THEN gw + 1 ELSE gw
  /\ cache' = IF via THEN [cache EXCEPT !.more = Put(@, key, val)] ELSE cache
  /\ UNCHANGED <<procv, environ, env_before, client, sessv, trigv, api_key,
                 questions, clarify_id, answers, plan, goal_and_queries_id,
                 goal, collected, enough, report, fault, searched, review,
                 last_search, hist, last>>

\* get_more_queries with a parse failure swallowed: no new queries.
MoreParseFailure_Swallow(key) ==
  /\ fault' = "json"
  /\ queries' = JList(<<>>)
  /\ idx' = 1
  /\ pc' = "report"
  /\ stage' = "ExpandedSearching"
  /\ returned' = returned \cup {"more"}
  /\ calls' = [calls EXCEPT !.more = @ + 1]
  /\ gw' = gw + 1
  /\ UNCHANGED <<procv, environ, env_before, client, cache, sessv, trigv,
                 api_key, questions, clarify_id, answers, plan,
                 goal_and_queries_id, goal, collected, enough, report, error,
                 searched, review, last_search, hist, last>>

\* Line 125: json.loads raises on a text that is not JSON; nothing in
\* get_more_queries or the script catches it.
MoreParseFailure(key) == Fail("more", "JSONDecodeError", "json", last_search)

\* Lines 114-125 and 208-211: the query expansion step.
MoreStep(D) ==
  /\ pc = "expand"
  /\ LET key == [collected |-> collected, goal |-> goal,
                 developer_message |-> developer_message, model |-> MODEL,
                 goal_and_queries_id |-> goal_and_queries_id]
     IN IF CacheHit(cache.more, key)
        THEN MoreReturn(key, cache.more[key], FALSE)
        ELSE \/ Fail("more", "APIError", "gateway", last_search)
             \/ \E text \in D.moreTexts :
                  IF json_loads(text).ok
                  THEN MoreReturn(key, json_loads(text).value, TRUE)
                  ELSE MoreParseFailure(key)

ReportReturn(key, val, via) ==
  /\ report' = val
  /\ pc' = "idle"
  /\ stage' = "ReportWritten"
  /\ returned' = returned \cup {"report"}
  /\ calls' = [calls EXCEPT !.report = @ + 1]
  /\ gw' = IF via THEN gw + 1 ELSE gw
  /\ cache' = IF via THEN [cache EXCEPT !.report = Put(@, key, val)] ELSE cache
  /\ UNCHANGED <<procv, environ, env_before, client, sessv, trigv, api_key,
                 questions, clarify_id, answers, plan, goal_and_queries_id,
                 goal, queries, collected, idx, enough, fault, error, searched,
                 review, last_search, hist, last>>

\* Lines 128-140 and 216-223: the report writer and the display.
ReportStep(D) ==
  /\ pc = "report"
  /\ LET key == [collected |-> collected, goal |-> goal,
                 developer_message |-> developer_message, model |-> MODEL]
     IN IF CacheHit(cache.report, key)
        THEN ReportReturn(key, cache.report[key], FALSE)
        ELSE \/ Fail("report", "APIError", "gateway", last_search)
             \/ \E text \in D.reportTexts : ReportReturn(key, text, TRUE)

\* ------------------------------------------------- inputs and specs

NoSecret == [kind |-> "absent", val |-> NoneStr]
NoDotenv == [exists |-> FALSE, lines |-> <<>>]

\* Shapes of a search response's output list.
OutGood == <<CallItem, MessageItem("msg_1", "found")>>
OutOnlyMessage == <<MessageItem("msg_1", "found")>>
OutEmpty == <<>>
OutNoContentAttr == <<CallItem, Item(TRUE, "rs_1", FALSE, <<>>)>>
OutNoIdAttr == <<CallItem, Item(FALSE, NoneId, TRUE, <<Part("found")>>)>>
OutEmptyContent == <<CallItem, Item(TRUE, "msg_1", TRUE, <<>>)>>
OutRefusal == <<CallItem, Item(TRUE, "msg_1", TRUE, <<PartNoText>>)>>
OutThree == <<CallItem, MessageItem("msg_2", "more"), MessageItem("msg_3", "x")>>

\* The session explored in full: two topics, two clarification formats, a
\* usable and an unparsable plan, usable and unusable search responses, both
\* verdicts, and a long and an unparsable expansion answer.
Session ==
  [maxRuns |-> MaxRuns,
   topics |-> {"ev", "ai"},
   answerVals |-> {"", "a"},
   ids |-> {"resp_1"},
   clarifyTexts |-> {<<"1", "?">>, <<"2", "?", "\n">>},
   planTexts |-> {PlanTwo, PlanProse},
   searchOutputs |-> {OutGood, OutOnlyMessage, OutEmptyContent},
   evalTexts |-> {<<"Y", "e", "s">>, <<"N", "o">>},
   moreTexts |-> {MoreSix, MoreProse},
   reportTexts |-> {"report [1]"}]

NextWith(D) ==
  \/ Rerun(D)
  \/ SubmitTopic(D)
  \/ EditAnswer(D)
  \/ ClickRunResearch(D)
  \/ ResolveCredential
  \/ TopicForm
  \/ ClarifyStep(D)
  \/ PlanStep(D)
  \/ InitialSearch(D)
  \/ EvaluateStep(D)
  \/ MoreStep(D)
  \/ ExpansionSearch(D)
  \/ ReportStep(D)

Init == InitWith({NoSecret}, {NoneStr, <<"k">>}, {NoDotenv})
Next == NextWith(Session)
Spec == Init /\ [][Next]_vars

\* --------------------------------------- the credential resolver alone

\* Script runs of the specifications that explore one step's inputs.
SideRuns == 5

SeqsUpTo(S, n) == UNION {[1..k -> S] : k \in 0..n}

\* Values written after OPENAI_API_KEY= in a .env line.
EnvVals ==
  {<<>>, <<"f">>, <<"f", "=", "2">>, <<" ">>, <<"g", " ">>, <<" ", "h">>}

\* Lines of a .env file, each with its line end.
EnvLines ==
  {KeyPrefix \o v \o <<"\n">> : v \in EnvVals}
    \cup {<<" ">> \o KeyPrefix \o <<"h", "\n">>,
          <<"#", " ", "k", "e", "y", "\n">>,
          <<"X", "=", "1", "\n">>}

\* A file whose last line has no line end.
ChopLast(f) ==
  [f EXCEPT ![Len(f)] = SubSeq(f[Len(f)], 1, Len(f[Len(f)]) - 1)]

EnvFiles ==
  SeqsUpTo(EnvLines, MaxEnvLines)
    \cup {ChopLast(f) : f \in SeqsUpTo(EnvLines, MaxEnvLines) \ {<<>>}}

SecretsAll ==
  {[kind |-> "raises", val |-> NoneStr], NoSecret,
   [kind |-> "present", val |-> <<>>], [kind |-> "present", val |-> <<"s">>]}
EnvironAll == {NoneStr, <<>>, <<"e">>}
DotenvAll == {NoDotenv} \cup {[exists |-> TRUE, lines |-> f] : f \in EnvFiles}

InitCred == InitWith(SecretsAll, EnvironAll, DotenvAll)
NextCred == ResolveCredential \/ TopicForm
SpecCred == InitCred /\ [][NextCred]_vars

\* ----------------------------------------------- one step's inputs

\* A session with one answer of the provider per step.
Plain ==
  [maxRuns |-> SideRuns,
   topics |-> {"ev"},
   answerVals |-> {"", "a"},
   ids |-> {"resp_1"},
   clarifyTexts |-> {<<"1", "?">>},
   planTexts |-> {PlanOne},
   searchOutputs |-> {OutGood},
   evalTexts |-> {<<"N", "o">>},
   moreTexts |-> {MoreOne},
   reportTexts |-> {"report [1]"}]

\* Answers of the provider to evaluate's question: every text of at most
\* MaxTextLen characters over EvalAlphabet, and four longer ones.
EvalAlphabet == {"y", "e", "s", "Y", "E", "S", "n", " "}
TextYesCovered ==
  <<"Y","e","s",","," ","f","u","l","l","y"," ","c","o","v","e","r","e","d",".">>
TextNoMissing == <<"N","o",","," ","m","i","s","s","i","n","g"," ","X">>
TextPartially ==
  <<"P","a","r","t","i","a","l","l","y"," ","-"," ","n","e","e","d","s"," ",
    "m","o","r","e">>
TextEyes == <<"M","y"," ","E","Y","E","S"," ","s","a","y"," ","n","o">>
EvalTextsAll ==
  SeqsUpTo(EvalAlphabet, MaxTextLen)
    \cup {TextYesCovered, TextNoMissing, TextPartially, TextEyes}

InitOne == InitWith({NoSecret}, {<<"k">>}, {NoDotenv})

NextEval == NextWith([Plain EXCEPT !.evalTexts = EvalTextsAll])
SpecEval == InitOne /\ [][NextEval]_vars

PlanTextsAll ==
  { PlanTwo, PlanOne, PlanEmpty, PlanQueriesStr, PlanExtraKey, PlanGoalInt,
    PlanQueriesInt, PlanNoQueries, PlanNoGoal, PlanBareList, PlanProse,
    PlanTruncated }
NextPlan == NextWith([Plain EXCEPT !.planTexts = PlanTextsAll])
SpecPlan == InitOne /\ [][NextPlan]_vars

MoreTextsAll ==
  { MoreOne, MoreRepeat, MoreSix, MoreNone, MoreDict, MoreStr, MoreInt,
    MoreNull, MoreProse }
NextMore ==
  NextWith([Plain EXCEPT !.moreTexts = MoreTextsAll,
                         !.planTexts = {PlanTwo, PlanEmpty},
                         !.evalTexts = {<<"N", "o">>, <<"Y", "e", "s">>}])
SpecMore == InitOne /\ [][NextMore]_vars

SearchOutputsAll ==
  { OutGood, OutOnlyMessage, OutEmpty, OutNoContentAttr, OutNoIdAttr,
    OutEmptyContent, OutRefusal, OutThree }
NextSearch ==
  NextWith([Plain EXCEPT !.searchOutputs = SearchOutputsAll,
                         !.planTexts = {PlanTwo}])
SpecSearch == InitOne /\ [][NextSearch]_vars

\* ------------------------------------------------------------ claims

\* The queries of the plan in the order the first loop goes through them.
PlanQueries == Iter(Index(plan, "queries"))

IsPrefix(a, b) == Len(a) <= Len(b) /\ SubSeq(b, 1, Len(a)) = a

\* The number of queries line 120 asks the provider for.
ExpansionAsked == 5

\* C1 (amended): the same without the cap on the number of queries: when
\* evaluate returns false, get_more_queries is invoked exactly once and
\* every query its answer holds, however many, is searched and appended
\* before write_report is invoked; evaluate and get_more_queries are not
\* invoked twice in a run, and get_more_queries is not invoked when
\* evaluate returns true.
C1_ExpansionSinglePass ==
  /\ calls.evaluate <= 1
  /\ calls.more <= 1
  /\ ("evaluate" \in returned /\ enough) => calls.more = 0
  /\ calls.more > 0 => ("evaluate" \in returned /\ ~enough)
  /\ ("evaluate" \in returned /\ ~enough /\ pc = "idle") => calls.more = 1
  /\ (calls.report > 0 /\ ~enough) =>
       /\ "more" \in returned
       /\ Len(collected) = Len(PlanQueries) + Len(Iter(queries))
       /\ \A j \in 1..Len(Iter(queries)) :
            collected[Len(PlanQueries) + j].query = Iter(queries)[j]

\* C1 (as stated): when evaluate returns false, get_more_queries is invoked
\* exactly once and contributes at most 5 queries, each searched and
\* appended before write_report is invoked; evaluate and get_more_queries
\* are not invoked twice in a run, and get_more_queries is not invoked
\* when evaluate returns true.
C1_ExpansionAtMostFive ==
  /\ C1_ExpansionSinglePass
  /\ "more" \in returned => Len(Iter(queries)) <= ExpansionAsked

\* A run whose provider answered "no" and then gave six queries, all of
\* them searched before the report.
C1_Witness ==
  /\ report # NoneId
  /\ ~enough
  /\ calls.more = 1
  /\ Len(Iter(queries)) = 6
  /\ Len(collected) = Len(PlanQueries) + 6

\* C2: collected is append-only within a run and corresponds position by
\* position to the queries searched: the plan's queries in order after the
\* first loop, followed by the expansion queries in order after the second;
\* nothing is dropped, reordered or deduplicated.
C2_CollectedMatchesSearched ==
  /\ [](/\ Len(collected) = Len(searched)
        /\ \A i \in 1..Len(collected) : collected[i].query = searched[i]
        /\ pc = "evaluate" => searched = PlanQueries
        /\ (pc = "report" /\ "more" \in returned) =>
             searched = PlanQueries \o Iter(queries))
  /\ [][pc # "idle" => IsPrefix(collected, collected')]_vars

\* A finished run that kept an error result and the result of an expansion
\* query that repeats an earlier query.
C2_Witness ==
  /\ report # NoneId
  /\ "more" \in returned
  /\ \E i \in 1..Len(collected) : collected[i].research_output.text = ErrPrefix
  /\ \E i, j \in 1..Len(collected) : i < j /\ collected[i].query = collected[j].query

\* The response shape the claim calls well-formed: output[1].id and
\* output[1].content[0].text exist.
WellFormed(output) ==
  /\ Len(output) >= 2
  /\ output[2].has_id
  /\ output[2].has_content
  /\ Len(output[2].content) >= 1
  /\ output[2].content[1].has_text

\* C3: run_search never raises: a well-formed response gives
\* {query, resp_id: the id, research_output: the text}, every other shape
\* gives {query, resp_id: None, research_output: "Error: Unexpected
\* response format: ..."}.
C3_RunSearchNeverRaises ==
  last_search.called =>
    /\ last_search.raised = ""
    /\ WellFormed(last_search.output) =>
         last_search.value =
           SearchResult(last_search.q, last_search.output[2].id,
                        Str(last_search.output[2].content[1].text))
    /\ ~WellFormed(last_search.output) =>
         /\ last_search.value.query = last_search.q
         /\ last_search.value.resp_id = NoneId
         /\ last_search.value.research_output.text = ErrPrefix

\* C4: as many answer slots as question lines, and get_goal_and_queries is
\* invoked only with every slot non-empty and len(answers) = len(questions).
C4_AnswersGate ==
  /\ "clarify" \in returned => Len(answers) = Len(questions)
  /\ calls.plan > 0 =>
       /\ Len(answers) = Len(questions)
       /\ \A i \in 1..Len(answers) : answers[i] # ""

\* Planning invoked for a question list that holds a blank line.
C4_Witness ==
  /\ calls.plan > 0
  /\ Len(questions) = 2
  /\ questions[2] = <<>>

\* Whether the letters y, e, s follow each other somewhere, in either case.
HasYes(text) ==
  \E i \in 1..(Len(text) - 2) :
    /\ text[i] \in {"y", "Y"}
    /\ text[i + 1] \in {"e", "E"}
    /\ text[i + 2] \in {"s", "S"}

\* C5: evaluate returns true exactly when the provider's answer holds
\* "yes" in any letter case, and the script acts on that value.
C5_EvaluateIffYes ==
  review.called =>
    /\ review.result = HasYes(review.text)
    /\ enough = review.result

\* evaluate gave true for an answer in upper case.
C5_Witness ==
  /\ review.called
  /\ enough
  /\ review.text = <<"Y", "E", "S">>

\* The plan shape the claim names: an object whose keys are exactly goal
\* (a string) and queries (an array of strings).
ExactPlan(p) ==
  /\ p.t = "dict"
  /\ {p.items[i] : i \in 1..Len(p.items)} = {"goal", "queries"}
  /\ Index(p, "goal").t = "str"
  /\ Index(p, "queries").t = "list"

\* The plan shape the script needs: an object that holds goal and queries,
\* the latter something a for loop accepts.
UsablePlan(p) ==
  /\ CanIndex(p, "goal")
  /\ CanIndex(p, "queries")
  /\ Iterable(Index(p, "queries"))

\* C6 (as stated): the plan is shown and searched only when it is an object
\* with exactly the keys goal (string) and queries (array of strings); any
\* other response text is a fatal error and no run_search call is made.
C6_PlanExactShape ==
  /\ (button_shown \/ calls.search > 0) => ExactPlan(plan)
  /\ (calls.plan > 0 /\ ~("plan" \in returned /\ ExactPlan(plan))) =>
       (error # "" /\ calls.search = 0)

\* C6 (amended): the plan is shown and searched only when it is an object
\* that holds goal and queries with an iterable queries value; a text that
\* is not JSON, or JSON without that much, is a fatal error with no
\* run_search call.
C6_PlanUsableShape ==
  /\ (button_shown \/ calls.search > 0) => ("plan" \in returned /\ UsablePlan(plan))
  /\ (calls.plan > 0 /\ ~("plan" \in returned /\ UsablePlan(plan))) =>
       /\ error \in {"APIError", "JSONDecodeError", "KeyError", "TypeError"}
       /\ pc = "idle"
       /\ calls.search = 0
       /\ ~button_shown

\* A plan with a third key whose query was searched.
C6_Witness ==
  /\ calls.search > 0
  /\ CanIndex(plan, "note")

\* The value of the first .env line that starts with OPENAI_API_KEY=.
DotenvValue ==
  LET hits == {i \in 1..Len(dotenv.lines) : StartsWith(dotenv.lines[i], KeyPrefix)}
      first == CHOOSE i \in hits : \A j \in hits : i <= j
  IN IF dotenv.exists /\ hits # {}
     THEN RStrip(SubSeq(dotenv.lines[first], Len(KeyPrefix) + 1,
                        Len(dotenv.lines[first])))
     ELSE NoneStr

\* The first non-empty value among the secrets store, the environment as
\* it was before the call, and the .env file.
FirstCredential ==
  LET sv == IF secrets.kind = "present" THEN secrets.val ELSE NoneStr
  IN IF Truthy(sv) THEN sv
     ELSE IF Truthy(env_before) THEN env_before
     ELSE DotenvValue

\* C7: set_api_key_env returns the first non-empty value in the order
\* secrets, environment, .env and leaves it in OPENAI_API_KEY; with no
\* non-empty value it returns nothing and leaves the environment alone.
C7_FirstSourceWins ==
  pc # "start" =>
    IF Truthy(FirstCredential)
    THEN api_key = FirstCredential /\ environ = FirstCredential
    ELSE ~Truthy(api_key) /\ environ = env_before

\* The key came from the second line of .env, behind a failing secrets
\* store and an environment variable set to the empty string.
C7_Witness ==
  /\ pc # "start"
  /\ secrets.kind = "raises"
  /\ env_before = <<>>
  /\ Len(dotenv.lines) = 2
  /\ ~StartsWith(dotenv.lines[1], KeyPrefix)
  /\ api_key = <<"f", "=", "2">>
  /\ environ = api_key

\* C8: a fatal error ends the run where it occurs: without a credential no
\* client is made and no step is called; after a failed Gateway call or a
\* JSON parse failure the run is over, with no report.
C8_FatalErrorsHalt ==
  /\ fault = "nocred" => (~client /\ gw = 0 /\ calls = NoCalls /\ pc = "idle")
  /\ fault \in {"gateway", "json"} =>
       /\ pc = "idle"
       /\ error \in {"APIError", "JSONDecodeError"}
       /\ report = NoneId
       /\ "report" \notin returned

\* get_more_queries failed to parse the provider's answer.
C8_Witness ==
  /\ fault = "json"
  /\ calls.more = 1
  /\ Len(collected) = 2

\* C9: a call of get_clarifying_questions, get_goal_and_queries or
\* run_search with the arguments of an earlier completed call returns that
\* call's value without a Gateway request, and no memo entry is removed or
\* replaced.
C9_MemoizedCalls ==
  /\ [](last.seen => (~last.gateway /\ last.same))
  /\ [][\A fn \in {"clarify", "plan", "search"} :
          \A k \in DOMAIN cache[fn] :
            k \in DOMAIN cache'[fn] /\ cache'[fn][k] = cache[fn][k]]_vars

\* A query searched again in a later run, answered from the memo table.
C9_Witness ==
  /\ last.fn = "search"
  /\ last.seen
  /\ runs > 4
  /\ gw = 0

\* C10 (as stated): over any sequence of interactions the session state
\* only moves forward; no state is revisited once left.
C10_NeverBackwards == [][Rank(shown') >= Rank(shown)]_vars

\* C10 (amended): within one script run the state only moves forward and
\* each step is entered after its predecessor completed; a rerun starts
\* again from the top.
C10_ForwardWithinRun ==
  /\ [](/\ calls.plan > 0 => "clarify" \in returned
        /\ calls.search > 0 => "plan" \in returned
        /\ calls.evaluate > 0 =>
             ("plan" \in returned /\ IsPrefix(PlanQueries, searched))
        /\ calls.more > 0 => "evaluate" \in returned
        /\ calls.report > 0 =>
             /\ "evaluate" \in returned
             /\ enough \/ ("more" \in returned /\
                           searched = PlanQueries \o Iter(queries)))
  /\ [][pc # "idle" => Rank(stage') >= Rank(stage)]_vars

\* A run that went through every state up to the report after an
\* expansion pass.
C10_Witness ==
  /\ stage = "ReportWritten"
  /\ returned = {"clarify", "plan", "evaluate", "more", "report"}
  /\ Len(searched) > Len(PlanQueries)

====
